---- MODULE Spec2Model ----
(***************************************************************************)
(* A model of the block store (block_store.c): a fixed array of equally    *)
(* sized blocks, a free-block bitmap, a reserved range of blocks that the  *)
(* allocator skips, raw block I/O, and persistence of the raw buffer.      *)
(*                                                                         *)
(* The store's operations are operators translated from the C functions;  *)
(* each returns the function's return value and the store it leaves.      *)
(* The actions call them on the one store handle the caller holds.        *)
(***************************************************************************)
EXTENDS Integers, Naturals, Sequences, FiniteSets

(***************************************************************************)
(* Bounds of the model.                                                    *)
(***************************************************************************)
\* Width of size_t in the model, in bits.
SizeBits == 8
\* Number of blocks of the stores of Spec, SpecGrant and SpecPersist.
MaxBlocks == 3
\* Largest number of blocks of the stores of SpecFirstFit.
MaxFitBlocks == 7
\* Number of calls SpecScenario follows after the store is created.
MaxScript == 6
\* Largest number of bits of the bitmaps of SpecBitmap.
MaxBits == 9
\* Bytes per block (block_store.h sets it; the model keeps it small).
BLOCK_SIZE_BYTES == 2

(***************************************************************************)
(* C constants and values.                                                 *)
(***************************************************************************)
SIZE_MAX == 2^SizeBits - 1
\* size_t arithmetic wraps.
SizeT(v) == v % (SIZE_MAX + 1)
\* The null pointer, of any pointer type.
NULL == [null |-> TRUE]

VARIABLES
    hdr,    \* the constants of block_store.h this build was compiled with
    bs,     \* the caller's store handle: NULL or the store it points to
    call,   \* the last call made: operation, arguments and results
    prev,   \* the call before it (kept by SpecGrant and SpecBitmap)
    held,   \* the ids granted and not released since (kept by SpecGrant);
            \* the bits whose last call was a set (kept by SpecBitmap)
    hist,   \* the calls made since the store was created (kept by
            \* SpecFirstFit and SpecScenario); the store as it was at the
            \* last Serialize that succeeded (kept by SpecPersist)
    fs,     \* the file at the path SpecPersist saves to and loads from
    res     \* the resources the process holds: "fd" an open descriptor,
            \* "bs" a store struct on the heap, "bitmap" a bitmap

vars == <<hdr, bs, call, prev, held, hist, fs, res>>

BLOCK_STORE_NUM_BLOCKS == hdr.num_blocks
BITMAP_START_BLOCK == hdr.start
BITMAP_NUM_BLOCKS == hdr.len
BLOCK_STORE_NUM_BYTES == BLOCK_STORE_NUM_BLOCKS * BLOCK_SIZE_BYTES

\* The headers of n blocks: every placement of a reserved range that leaves
\* at least one block to allocate.
Headers(n) ==
    {h \in [num_blocks : {n}, start : 0..(n - 1), len : 1..(n - 1)] :
        h.start + h.len <= n}

(***************************************************************************)
(* The bitmap (bitmap.c): bit i is bit i % 8 of byte i / 8.                *)
(***************************************************************************)
bitmap_create(n_bits, mem_ok) ==
    IF ~mem_ok THEN NULL
    ELSE [bit_count |-> n_bits,
          byte_count |-> (n_bits + 7) \div 8,
          data |-> [k \in 0..(((n_bits + 7) \div 8) - 1) |-> 0]]

bitmap_test(bitmap, bit) ==
    (bitmap.data[bit \div 8] \div (2^(bit % 8))) % 2 = 1

\* bitmap_set adding the bit's value without looking at the bit.
bitmap_set_adds(bitmap, bit) ==
    [bitmap EXCEPT !.data[bit \div 8] = @ + 2^(bit % 8)]

bitmap_set(bitmap, bit) ==
    IF bitmap_test(bitmap, bit) THEN bitmap
    ELSE [bitmap EXCEPT !.data[bit \div 8] = @ + 2^(bit % 8)]

bitmap_reset(bitmap, bit) ==
    IF bitmap_test(bitmap, bit)
    THEN [bitmap EXCEPT !.data[bit \div 8] = @ - 2^(bit % 8)]
    ELSE bitmap

RECURSIVE PopCount(_)
PopCount(byte) == IF byte = 0 THEN 0 ELSE (byte % 2) + PopCount(byte \div 2)

RECURSIVE SumPopCount(_, _)
SumPopCount(bitmap, k) ==
    IF k >= bitmap.byte_count THEN 0
    ELSE PopCount(bitmap.data[k]) + SumPopCount(bitmap, k + 1)

bitmap_total_set(bitmap) == SumPopCount(bitmap, 0)

(***************************************************************************)
(* The block store.                                                        *)
(***************************************************************************)
block_store_get_total_blocks == BLOCK_STORE_NUM_BLOCKS

\* calloc of the struct, then bitmap_create; either may fail.
block_store_create(mem_ok, bitmap_ok) ==
    IF ~mem_ok THEN NULL
    ELSE LET bitmap == bitmap_create(BLOCK_STORE_NUM_BLOCKS, bitmap_ok)
         IN  IF bitmap = NULL THEN NULL
             ELSE [bitmap |-> bitmap,
                   data |-> [k \in 0..(BLOCK_STORE_NUM_BYTES - 1) |-> 0]]

\* block_store_allocate's loop without the test of the reserved range.
RECURSIVE AllocateScanNoSkip(_, _)
AllocateScanNoSkip(store, i) ==
    IF ~(i < BLOCK_STORE_NUM_BLOCKS) THEN [ret |-> SIZE_MAX, bs |-> store]
    ELSE IF bitmap_test(store.bitmap, i) = FALSE
         THEN [ret |-> i, bs |-> [store EXCEPT !.bitmap = bitmap_set(@, i)]]
    ELSE AllocateScanNoSkip(store, i + 1)

\* block_store_allocate's loop returning the first free block it meets
\* without marking it.
RECURSIVE AllocateScanNoSet(_, _)
AllocateScanNoSet(store, i) ==
    IF ~(i < BLOCK_STORE_NUM_BLOCKS) THEN [ret |-> SIZE_MAX, bs |-> store]
    ELSE IF i >= BITMAP_START_BLOCK /\ i < BITMAP_START_BLOCK + BITMAP_NUM_BLOCKS
         THEN AllocateScanNoSet(store, i + 1)
    ELSE IF bitmap_test(store.bitmap, i) = FALSE
         THEN [ret |-> i, bs |-> store]
    ELSE AllocateScanNoSet(store, i + 1)

\* The for loop of block_store_allocate, from index i on.
RECURSIVE AllocateScan(_, _)
AllocateScan(store, i) ==
    IF ~(i < block_store_get_total_blocks) THEN [ret |-> SIZE_MAX, bs |-> store]
    ELSE IF i >= BITMAP_START_BLOCK /\ i < BITMAP_START_BLOCK + BITMAP_NUM_BLOCKS
         THEN AllocateScan(store, i + 1)
    ELSE IF bitmap_test(store.bitmap, i) = FALSE
         THEN [ret |-> i, bs |-> [store EXCEPT !.bitmap = bitmap_set(@, i)]]
    ELSE AllocateScan(store, i + 1)

block_store_allocate(store) ==
    IF store = NULL \/ store.bitmap = NULL THEN [ret |-> SIZE_MAX, bs |-> store]
    ELSE AllocateScan(store, 0)

\* block_store_request without the test of the block's bit.
block_store_request_no_test(store, block_id) ==
    IF store = NULL \/ store.bitmap = NULL
       \/ block_id >= block_store_get_total_blocks
    THEN [ret |-> FALSE, bs |-> store]
    ELSE [ret |-> TRUE,
          bs |-> [store EXCEPT !.bitmap = bitmap_set(@, block_id)]]

\* block_store_request refusing the reserved range, as block_store_allocate
\* passes over it.
block_store_request_not_reserved(store, block_id) ==
    IF store = NULL \/ store.bitmap = NULL
       \/ block_id >= block_store_get_total_blocks
    THEN [ret |-> FALSE, bs |-> store]
    ELSE IF block_id >= BITMAP_START_BLOCK
            /\ block_id < BITMAP_START_BLOCK + BITMAP_NUM_BLOCKS
         THEN [ret |-> FALSE, bs |-> store]
    ELSE IF ~bitmap_test(store.bitmap, block_id)
         THEN [ret |-> TRUE,
               bs |-> [store EXCEPT !.bitmap = bitmap_set(@, block_id)]]
    ELSE [ret |-> FALSE, bs |-> store]

\* block_store_request letting the id one past the last block through.
block_store_request_one_past(store, block_id) ==
    IF store = NULL \/ store.bitmap = NULL
       \/ block_id > block_store_get_total_blocks
    THEN [ret |-> FALSE, bs |-> store]
    ELSE IF ~bitmap_test(store.bitmap, block_id)
         THEN [ret |-> TRUE,
               bs |-> [store EXCEPT !.bitmap = bitmap_set(@, block_id)]]
    ELSE [ret |-> FALSE, bs |-> store]

block_store_request(store, block_id) ==
    IF store = NULL \/ store.bitmap = NULL
       \/ block_id >= block_store_get_total_blocks
    THEN [ret |-> FALSE, bs |-> store]
    ELSE IF ~bitmap_test(store.bitmap, block_id)
         THEN [ret |-> TRUE,
               bs |-> [store EXCEPT !.bitmap = bitmap_set(@, block_id)]]
    ELSE [ret |-> FALSE, bs |-> store]

\* block_store_release left as the stub it started as.
block_store_release_stub(store, block_id) == store

\* block_store_release flipping the bit instead of clearing it.
block_store_release_flip(store, block_id) ==
    IF store # NULL /\ store.bitmap # NULL
       /\ block_id < block_store_get_total_blocks
    THEN IF bitmap_test(store.bitmap, block_id)
         THEN [store EXCEPT !.bitmap = bitmap_reset(@, block_id)]
         ELSE [store EXCEPT !.bitmap = bitmap_set(@, block_id)]
    ELSE store

block_store_release(store, block_id) ==
    IF store # NULL /\ store.bitmap # NULL
       /\ block_id < block_store_get_total_blocks
    THEN IF bitmap_test(store.bitmap, block_id)
         THEN [store EXCEPT !.bitmap = bitmap_reset(@, block_id)]
         ELSE store
    ELSE store

\* block_store_get_used_blocks without the reserved blocks added.
block_store_get_used_blocks_bits_only(store) ==
    IF store = NULL \/ store.bitmap = NULL THEN SIZE_MAX
    ELSE SizeT(bitmap_total_set(store.bitmap))

block_store_get_used_blocks(store) ==
    IF store = NULL \/ store.bitmap = NULL THEN SIZE_MAX
    ELSE SizeT(bitmap_total_set(store.bitmap) + BITMAP_NUM_BLOCKS)

block_store_get_free_blocks(store) ==
    IF store = NULL \/ store.bitmap = NULL THEN SIZE_MAX
    ELSE LET total_blocks == block_store_get_total_blocks
             used_blocks == block_store_get_used_blocks(store)
         IN  SizeT(total_blocks - used_blocks)

\* memcpy(buffer, bs->data + block_id * BLOCK_SIZE_BYTES, BLOCK_SIZE_BYTES);
\* buffer is the caller's destination: NULL, or the bytes it holds.
block_store_read(store, block_id, buffer) ==
    IF store = NULL \/ buffer = NULL
       \/ block_id >= block_store_get_total_blocks
    THEN [ret |-> 0, buffer |-> buffer]
    ELSE [ret |-> BLOCK_SIZE_BYTES,
          buffer |-> [k \in 0..(BLOCK_SIZE_BYTES - 1) |->
                         store.data[block_id * BLOCK_SIZE_BYTES + k]]]

\* block_store_write with the block's offset counted in bytes, not blocks.
block_store_write_byte_offset(store, block_id, buffer) ==
    IF store = NULL \/ buffer = NULL
       \/ block_id >= block_store_get_total_blocks
    THEN [ret |-> 0, bs |-> store]
    ELSE [ret |-> BLOCK_SIZE_BYTES,
          bs |-> [store EXCEPT !.data =
                     [k \in DOMAIN @ |->
                         IF k >= block_id /\ k < block_id + BLOCK_SIZE_BYTES
                         THEN buffer[k - block_id]
                         ELSE @[k]]]]

\* block_store_write marking the block it writes as in use.
block_store_write_marks(store, block_id, buffer) ==
    IF store = NULL \/ buffer = NULL
       \/ block_id >= block_store_get_total_blocks
    THEN [ret |-> 0, bs |-> store]
    ELSE [ret |-> BLOCK_SIZE_BYTES,
          bs |-> [bitmap |-> bitmap_set(store.bitmap, block_id),
                  data |-> [k \in DOMAIN store.data |->
                               IF k >= block_id * BLOCK_SIZE_BYTES
                                  /\ k < block_id * BLOCK_SIZE_BYTES + BLOCK_SIZE_BYTES
                               THEN buffer[k - block_id * BLOCK_SIZE_BYTES]
                               ELSE store.data[k]]]]

\* memcpy(bs->data + block_id * BLOCK_SIZE_BYTES, buffer, BLOCK_SIZE_BYTES)
block_store_write(store, block_id, buffer) ==
    IF store = NULL \/ buffer = NULL
       \/ block_id >= block_store_get_total_blocks
    THEN [ret |-> 0, bs |-> store]
    ELSE [ret |-> BLOCK_SIZE_BYTES,
          bs |-> [store EXCEPT !.data =
                     [k \in DOMAIN @ |->
                         IF k >= block_id * BLOCK_SIZE_BYTES
                            /\ k < block_id * BLOCK_SIZE_BYTES + BLOCK_SIZE_BYTES
                         THEN buffer[k - block_id * BLOCK_SIZE_BYTES]
                         ELSE @[k]]]]

\* The inner loop of block_store_deserialize with is_allocated starting
\* out true.
RECURSIVE IsAllocatedFromTrue(_, _, _)
IsAllocatedFromTrue(data, block_data, byte_index) ==
    IF ~(byte_index < BLOCK_SIZE_BYTES) THEN TRUE
    ELSE IF data[block_data + byte_index] # 0 THEN TRUE
    ELSE IsAllocatedFromTrue(data, block_data, byte_index + 1)

\* The inner loop of block_store_deserialize: whether a byte of the block at
\* block_data, from byte_index on, is not zero.
RECURSIVE IsAllocated(_, _, _)
IsAllocated(data, block_data, byte_index) ==
    IF ~(byte_index < BLOCK_SIZE_BYTES) THEN FALSE
    ELSE IF data[block_data + byte_index] # 0 THEN TRUE
    ELSE IsAllocated(data, block_data, byte_index + 1)

\* The outer loop of block_store_deserialize passing over the reserved
\* range.
RECURSIVE MarkBlocksSkipReserved(_, _)
MarkBlocksSkipReserved(store, block_id) ==
    IF ~(block_id < block_store_get_total_blocks) THEN store
    ELSE LET block_data == block_id * BLOCK_SIZE_BYTES
             is_allocated == IsAllocated(store.data, block_data, 0)
         IN  IF is_allocated
                /\ ~(block_id >= BITMAP_START_BLOCK
                      /\ block_id < BITMAP_START_BLOCK + BITMAP_NUM_BLOCKS)
             THEN MarkBlocksSkipReserved(
                      [store EXCEPT !.bitmap = bitmap_set(@, block_id)],
                      block_id + 1)
             ELSE MarkBlocksSkipReserved(store, block_id + 1)

\* The outer loop of block_store_deserialize, from block_id on.
RECURSIVE MarkBlocks(_, _)
MarkBlocks(store, block_id) ==
    IF ~(block_id < block_store_get_total_blocks) THEN store
    ELSE LET block_data == block_id * BLOCK_SIZE_BYTES
             is_allocated == IsAllocated(store.data, block_data, 0)
         IN  IF is_allocated
             THEN MarkBlocks([store EXCEPT !.bitmap = bitmap_set(@, block_id)],
                             block_id + 1)
             ELSE MarkBlocks(store, block_id + 1)

\* A file is [exists, bytes]: open fails for one that does not exist, and
\* read returns the bytes there are, BLOCK_STORE_NUM_BYTES at most.
block_store_deserialize(filename, file, mem_ok, bitmap_ok) ==
    IF filename = NULL THEN NULL
    ELSE IF ~file.exists THEN NULL
    ELSE IF ~mem_ok THEN NULL
    ELSE LET bitmap == bitmap_create(block_store_get_total_blocks, bitmap_ok)
             size == Len(file.bytes)
             read_bytes == IF size < BLOCK_STORE_NUM_BYTES
                           THEN size ELSE BLOCK_STORE_NUM_BYTES
         IN  IF bitmap = NULL THEN NULL
             ELSE IF read_bytes # BLOCK_STORE_NUM_BYTES THEN NULL
             ELSE MarkBlocks(
                      [bitmap |-> bitmap,
                       data |-> [k \in 0..(BLOCK_STORE_NUM_BYTES - 1) |->
                                    file.bytes[k + 1]]],
                      0)

\* block_store_serialize writing bs->data from its second block on, the
\* first block last.
block_store_serialize_block_offset(store, filename, file, open_ok, written) ==
    IF store = NULL \/ filename = NULL THEN [ret |-> 0, file |-> file]
    ELSE IF ~open_ok THEN [ret |-> 0, file |-> file]
    ELSE LET count == IF written < 0 THEN 0 ELSE written
             bytes == [k \in 1..count |->
                          store.data[(k - 1 + BLOCK_SIZE_BYTES)
                                         % BLOCK_STORE_NUM_BYTES]]
         IN  IF written # BLOCK_STORE_NUM_BYTES
             THEN [ret |-> 0, file |-> [exists |-> TRUE, bytes |-> bytes]]
             ELSE [ret |-> BLOCK_STORE_NUM_BYTES,
                   file |-> [exists |-> TRUE, bytes |-> bytes]]

\* block_store_serialize returning the number of bytes that write wrote
\* when it wrote only some.
block_store_serialize_returns_written(store, filename, file, open_ok, written) ==
    IF store = NULL \/ filename = NULL THEN [ret |-> 0, file |-> file]
    ELSE IF ~open_ok THEN [ret |-> 0, file |-> file]
    ELSE LET count == IF written < 0 THEN 0 ELSE written
             bytes == [k \in 1..count |-> store.data[k - 1]]
         IN  [ret |-> count, file |-> [exists |-> TRUE, bytes |-> bytes]]

\* open(O_WRONLY | O_CREAT | O_TRUNC) empties the file when it succeeds;
\* write returns written: -1, or the number of bytes of bs->data that
\* reached the file.
block_store_serialize(store, filename, file, open_ok, written) ==
    IF store = NULL \/ filename = NULL THEN [ret |-> 0, file |-> file]
    ELSE IF ~open_ok THEN [ret |-> 0, file |-> file]
    ELSE LET count == IF written < 0 THEN 0 ELSE written
             bytes == [k \in 1..count |-> store.data[k - 1]]
         IN  IF written # BLOCK_STORE_NUM_BYTES
             THEN [ret |-> 0, file |-> [exists |-> TRUE, bytes |-> bytes]]
             ELSE [ret |-> BLOCK_STORE_NUM_BYTES,
                   file |-> [exists |-> TRUE, bytes |-> bytes]]

(***************************************************************************)
(* The resources each function takes and gives back: the calls that        *)
(* succeeded in acquiring or that released one, in the order of the path   *)
(* taken through the function.                                             *)
(***************************************************************************)
Acquires == [open |-> "fd", calloc |-> "bs", bitmap_create |-> "bitmap"]

Releases == [close |-> "fd", free |-> "bs", bitmap_destroy |-> "bitmap"]

\* What is held after the calls, given what was held before them.
RECURSIVE Holds(_, _)
Holds(before, calls) ==
    IF calls = <<>> THEN before
    ELSE LET c == Head(calls)
         IN  Holds(IF c \in DOMAIN Acquires
                   THEN before \cup {Acquires[c]}
                   ELSE before \ {Releases[c]},
                   Tail(calls))

block_store_create_calls(mem_ok, bitmap_ok) ==
    IF ~mem_ok THEN <<>>
    ELSE IF ~bitmap_ok THEN <<"calloc", "free">>
    ELSE <<"calloc", "bitmap_create">>

block_store_destroy_calls(store) ==
    IF store # NULL THEN <<"bitmap_destroy", "free">> ELSE <<>>

\* block_store_deserialize returning on a short read without close(fd).
block_store_deserialize_calls_no_close(filename, file, mem_ok, bitmap_ok) ==
    IF filename = NULL THEN <<>>
    ELSE IF ~file.exists THEN <<>>
    ELSE IF ~mem_ok THEN <<"open", "close">>
    ELSE IF ~bitmap_ok THEN <<"open", "calloc", "close", "free">>
    ELSE IF Len(file.bytes) < BLOCK_STORE_NUM_BYTES
         THEN <<"open", "calloc", "bitmap_create", "bitmap_destroy", "free">>
    ELSE <<"open", "calloc", "bitmap_create", "close">>

block_store_deserialize_calls(filename, file, mem_ok, bitmap_ok) ==
    IF filename = NULL THEN <<>>
    ELSE IF ~file.exists THEN <<>>
    ELSE IF ~mem_ok THEN <<"open", "close">>
    ELSE IF ~bitmap_ok THEN <<"open", "calloc", "close", "free">>
    ELSE IF Len(file.bytes) < BLOCK_STORE_NUM_BYTES
         THEN <<"open", "calloc", "bitmap_create",
                "bitmap_destroy", "close", "free">>
    ELSE <<"open", "calloc", "bitmap_create", "close">>

block_store_serialize_calls(store, filename, open_ok, written) ==
    IF store = NULL \/ filename = NULL THEN <<>>
    ELSE IF ~open_ok THEN <<>>
    ELSE IF written # BLOCK_STORE_NUM_BYTES THEN <<"open", "close">>
    ELSE <<"open", "close">>

(***************************************************************************)
(* The caller's inputs.                                                    *)
(***************************************************************************)
\* Block ids: every valid one, one past the last, and SIZE_MAX.
BlockIds == 0..BLOCK_STORE_NUM_BLOCKS \cup {SIZE_MAX}

\* Block-sized buffers: all zero, and zero but for the last byte.
ZeroBuffer == [k \in 0..(BLOCK_SIZE_BYTES - 1) |-> 0]

Buffers ==
    {ZeroBuffer,
     [k \in 0..(BLOCK_SIZE_BYTES - 1) |->
         IF k = BLOCK_SIZE_BYTES - 1 THEN 255 ELSE 0]}

\* The bytes of a sequence of blocks, in index order.
RECURSIVE Concat(_)
Concat(blocks) ==
    IF blocks = <<>> THEN <<>>
    ELSE [k \in 1..BLOCK_SIZE_BYTES |-> Head(blocks)[k - 1]] \o Concat(Tail(blocks))

\* No file at the path.
NoFile == [exists |-> FALSE, bytes |-> <<>>]

\* Files: none, one of each content of the store's size, one a byte short
\* and one a byte long.
Files ==
    LET whole == {Concat(blocks) : blocks \in [1..BLOCK_STORE_NUM_BLOCKS -> Buffers]}
        other == {SubSeq(c, 1, BLOCK_STORE_NUM_BYTES - 1) : c \in {Concat([i \in 1..BLOCK_STORE_NUM_BLOCKS |-> b]) : b \in Buffers}}
                 \cup {Concat([i \in 1..(BLOCK_STORE_NUM_BLOCKS + 1) |-> b]) : b \in Buffers}
    IN  {NoFile}
        \cup {[exists |-> TRUE, bytes |-> c] : c \in whole \cup other}

\* What write may return to block_store_serialize: an error, one byte, all
\* bytes.
Writtens == {-1, 1, BLOCK_STORE_NUM_BYTES}

(***************************************************************************)
(* The calls.                                                              *)
(***************************************************************************)
Call(op, id, ret, ok, buffer) ==
    [op |-> op, id |-> id, ret |-> ret, ok |-> ok, buffer |-> buffer]

NoCall == Call("none", 0, 0, FALSE, NULL)

Create(mem_ok, bitmap_ok) ==
    /\ bs = NULL
    /\ bs' = block_store_create(mem_ok, bitmap_ok)
    /\ res' = Holds(res, block_store_create_calls(mem_ok, bitmap_ok))
    /\ call' = Call("create", 0, 0, bs' # NULL, NULL)
    /\ UNCHANGED <<hdr, fs>>

Destroy ==
    /\ bs' = NULL
    /\ res' = Holds(res, block_store_destroy_calls(bs))
    /\ call' = Call("destroy", 0, 0, bs # NULL, NULL)
    /\ UNCHANGED <<hdr, fs>>

Allocate ==
    LET r == block_store_allocate(bs)
    IN  /\ bs' = r.bs
        /\ call' = Call("allocate", 0, r.ret, r.ret # SIZE_MAX, NULL)
        /\ UNCHANGED <<hdr, fs, res>>

Request(block_id) ==
    LET r == block_store_request(bs, block_id)
    IN  /\ bs' = r.bs
        /\ call' = Call("request", block_id, 0, r.ret, NULL)
        /\ UNCHANGED <<hdr, fs, res>>

Release(block_id) ==
    /\ bs' = block_store_release(bs, block_id)
    /\ call' = Call("release", block_id, 0, TRUE, NULL)
    /\ UNCHANGED <<hdr, fs, res>>

Read(block_id, buffer) ==
    LET r == block_store_read(bs, block_id, buffer)
    IN  /\ call' = Call("read", block_id, r.ret, r.ret # 0, r.buffer)
        /\ UNCHANGED <<hdr, bs, fs, res>>

Write(block_id, buffer) ==
    LET r == block_store_write(bs, block_id, buffer)
    IN  /\ bs' = r.bs
        /\ call' = Call("write", block_id, r.ret, r.ret # 0, buffer)
        /\ UNCHANGED <<hdr, fs, res>>

Deserialize(filename, file, mem_ok, bitmap_ok) ==
    /\ bs = NULL
    /\ bs' = block_store_deserialize(filename, file, mem_ok, bitmap_ok)
    /\ res' = Holds(res, block_store_deserialize_calls(filename, file,
                                                       mem_ok, bitmap_ok))
    /\ call' = Call("deserialize", 0, 0, bs' # NULL, file)
    /\ UNCHANGED <<hdr, fs>>

Serialize(filename, open_ok, written) ==
    LET r == block_store_serialize(bs, filename, fs, open_ok, written)
    IN  /\ fs' = r.file
        /\ res' = Holds(res, block_store_serialize_calls(bs, filename,
                                                         open_ok, written))
        /\ call' = Call("serialize", 0, r.ret, r.ret # 0,
                        [filename |-> filename, open_ok |-> open_ok,
                         written |-> written])
        /\ UNCHANGED <<hdr, bs>>

\* bitmap_set and bitmap_reset called on the bitmap a store owns.
BitmapSet(bit) ==
    /\ bs' = [bs EXCEPT !.bitmap = bitmap_set(@, bit)]
    /\ call' = Call("bitmap_set", bit, 0, TRUE, NULL)
    /\ UNCHANGED <<hdr, fs, res>>

BitmapReset(bit) ==
    /\ bs' = [bs EXCEPT !.bitmap = bitmap_reset(@, bit)]
    /\ call' = Call("bitmap_reset", bit, 0, TRUE, NULL)
    /\ UNCHANGED <<hdr, fs, res>>

(***************************************************************************)
(* Spec: every call, in any order, on stores of MaxBlocks blocks.          *)
(***************************************************************************)
Init ==
    /\ hdr \in Headers(MaxBlocks)
    /\ bs = NULL
    /\ call = NoCall
    /\ prev = NoCall
    /\ held = {}
    /\ hist = <<>>
    /\ fs = NoFile
    /\ res = {}

\* Spec keeps no history.
NoHistory == UNCHANGED <<prev, held, hist>>

Next ==
    \/ (\E mem_ok \in BOOLEAN, bitmap_ok \in BOOLEAN : Create(mem_ok, bitmap_ok))
       /\ NoHistory
    \/ Destroy /\ NoHistory
    \/ Allocate /\ NoHistory
    \/ (\E block_id \in BlockIds : Request(block_id)) /\ NoHistory
    \/ (\E block_id \in BlockIds : Release(block_id)) /\ NoHistory
    \/ (\E block_id \in BlockIds : Read(block_id, NULL)) /\ NoHistory
    \/ (\E block_id \in BlockIds : Read(block_id, ZeroBuffer)) /\ NoHistory
    \/ (\E block_id \in BlockIds : Write(block_id, NULL)) /\ NoHistory
    \/ (\E block_id \in BlockIds, buffer \in Buffers : Write(block_id, buffer))
       /\ NoHistory
    \/ (\E file \in Files, mem_ok \in BOOLEAN, bitmap_ok \in BOOLEAN :
           Deserialize([null |-> FALSE], file, mem_ok, bitmap_ok))
       /\ NoHistory
    \/ (\E file \in Files : Deserialize(NULL, file, TRUE, TRUE)) /\ NoHistory

Spec == Init /\ [][Next]_vars

(***************************************************************************)
(* SpecGrant: Allocate, Request and Release on a fresh store, with the     *)
(* call before the last one and the set of ids granted and not released.   *)
(***************************************************************************)
InitFresh ==
    /\ bs = block_store_create(TRUE, TRUE)
    /\ call = NoCall
    /\ prev = NoCall
    /\ held = {}
    /\ hist = <<>>
    /\ fs = NoFile
    /\ res = Holds({}, block_store_create_calls(TRUE, TRUE))

InitGrant == hdr \in Headers(MaxBlocks) /\ InitFresh

\* The ids held after call c, given those held before it.
Granted(before, c) ==
    IF c.op = "allocate" /\ c.ret # SIZE_MAX THEN before \cup {c.ret}
    ELSE IF c.op = "request" /\ c.ok THEN before \cup {c.id}
    ELSE IF c.op = "release" THEN before \ {c.id}
    ELSE before

GrantHistory == prev' = call /\ held' = Granted(held, call') /\ UNCHANGED hist

NextGrant ==
    \/ Allocate /\ GrantHistory
    \/ (\E block_id \in BlockIds : Request(block_id)) /\ GrantHistory
    \/ (\E block_id \in BlockIds : Release(block_id)) /\ GrantHistory

SpecGrant == InitGrant /\ [][NextGrant]_vars

(***************************************************************************)
(* SpecFirstFit: Allocate alone, repeated on a fresh store, for every      *)
(* header of up to MaxFitBlocks blocks; hist is the ids it returned.       *)
(***************************************************************************)
InitFirstFit ==
    /\ \E n \in 2..MaxFitBlocks : hdr \in Headers(n)
    /\ InitFresh

NextFirstFit ==
    /\ Len(hist) < BLOCK_STORE_NUM_BLOCKS + 1
    /\ Allocate
    /\ hist' = Append(hist, call'.ret)
    /\ UNCHANGED <<prev, held>>

SpecFirstFit == InitFirstFit /\ [][NextFirstFit]_vars

(***************************************************************************)
(* SpecScenario: the first MaxScript calls, each an Allocate or a Release  *)
(* of one of the first blocks, on a fresh store of 16 blocks whose first   *)
(* two are reserved; hist is the calls made.                               *)
(***************************************************************************)
ScenarioHeader == [num_blocks |-> 16, start |-> 0, len |-> 2]

ScenarioIds == 2..5

InitScenario == hdr = ScenarioHeader /\ InitFresh

ScenarioHistory ==
    /\ Len(hist) < MaxScript
    /\ hist' = Append(hist, call')
    /\ UNCHANGED <<prev, held>>

NextScenario ==
    \/ Allocate /\ ScenarioHistory
    \/ (\E block_id \in ScenarioIds : Release(block_id)) /\ ScenarioHistory

SpecScenario == InitScenario /\ [][NextScenario]_vars

(***************************************************************************)
(* SpecPersist: the calls on a store, on valid block ids, with Serialize   *)
(* to one path and Deserialize from it. hist is the store as it was at the *)
(* last Serialize that succeeded; once there is one, the calls followed    *)
(* are those that leave a store's blocks as they are.                      *)
(***************************************************************************)
ValidIds == 0..(BLOCK_STORE_NUM_BLOCKS - 1)

PersistHistory ==
    /\ hist' = IF call'.op = "serialize" /\ call'.ok THEN <<bs>> ELSE hist
    /\ UNCHANGED <<prev, held>>

NextPersist ==
    \/ (\E mem_ok \in BOOLEAN, bitmap_ok \in BOOLEAN : Create(mem_ok, bitmap_ok))
       /\ PersistHistory
    \/ Destroy /\ PersistHistory
    \/ hist = <<>> /\ Allocate /\ PersistHistory
    \/ hist = <<>> /\ (\E block_id \in ValidIds : Request(block_id))
       /\ PersistHistory
    \/ hist = <<>> /\ (\E block_id \in ValidIds : Release(block_id))
       /\ PersistHistory
    \/ hist = <<>>
       /\ (\E block_id \in ValidIds, buffer \in Buffers : Write(block_id, buffer))
       /\ PersistHistory
    \/ Serialize(NULL, TRUE, BLOCK_STORE_NUM_BYTES) /\ PersistHistory
    \/ (\E open_ok \in BOOLEAN, written \in Writtens :
           Serialize([null |-> FALSE], open_ok, written))
       /\ PersistHistory
    \/ (\E mem_ok \in BOOLEAN, bitmap_ok \in BOOLEAN :
           Deserialize([null |-> FALSE], fs, mem_ok, bitmap_ok))
       /\ PersistHistory

SpecPersist == Init /\ [][NextPersist]_vars

(***************************************************************************)
(* SpecBitmap: bitmap_set and bitmap_reset, in any order and on every bit  *)
(* in range, on the bitmap of a fresh store, for bitmaps of 2 to MaxBits   *)
(* bits; held is the bits whose last call was a bitmap_set.                *)
(***************************************************************************)
InitBitmap ==
    /\ \E n \in 2..MaxBits : hdr = [num_blocks |-> n, start |-> 0, len |-> 1]
    /\ InitFresh

BitmapHistory ==
    /\ prev' = call
    /\ held' = IF call'.op = "bitmap_set"
               THEN held \cup {call'.id} ELSE held \ {call'.id}
    /\ UNCHANGED hist

NextBitmap ==
    \/ (\E bit \in 0..(bs.bitmap.bit_count - 1) : BitmapSet(bit))
       /\ BitmapHistory
    \/ (\E bit \in 0..(bs.bitmap.bit_count - 1) : BitmapReset(bit))
       /\ BitmapHistory

SpecBitmap == InitBitmap /\ [][NextBitmap]_vars

(***************************************************************************)
(* What the claims speak of.                                               *)
(***************************************************************************)
\* The reserved metadata range and the blocks outside it.
Reserved ==
    {i \in 0..(hdr.num_blocks - 1) : i >= hdr.start /\ i < hdr.start + hdr.len}

NonReserved == (0..(hdr.num_blocks - 1)) \ Reserved

Min(S) == CHOOSE m \in S : \A x \in S : m <= x

\* The k-th smallest block outside the reserved range, k = 1, 2, ...
KthNonReserved(k) ==
    CHOOSE i \in NonReserved : Cardinality({j \in NonReserved : j < i}) = k - 1

\* The bits set in a bitmap, padding bits of the last byte included.
SetBits(bitmap) ==
    {i \in 0..(8 * bitmap.byte_count - 1) : bitmap_test(bitmap, i)}

Valid == bs # NULL

(***************************************************************************)
(* C1. On a fresh store the k-th Allocate returns the k-th smallest block  *)
(* index outside the reserved range, for k up to the number of such        *)
(* blocks, and SIZE_MAX from then on: every such index exactly once, in    *)
(* ascending order, none of the reserved range, then "no space".           *)
(***************************************************************************)
C1_FirstFitCoverage ==
    \A k \in 1..Len(hist) :
        hist[k] = IF k <= Cardinality(NonReserved)
                  THEN KthNonReserved(k) ELSE SIZE_MAX

\* Every block was handed out and the next Allocate found no space, on a
\* store whose reserved range lies strictly inside it.
C1_Witness ==
    /\ hdr.num_blocks = MaxFitBlocks
    /\ hdr.start > 0 /\ hdr.start + hdr.len < hdr.num_blocks /\ hdr.len > 1
    /\ Len(hist) = Cardinality(NonReserved) + 1
    /\ hist[Len(hist)] = SIZE_MAX
    /\ {hist[k] : k \in 1..Cardinality(NonReserved)} = NonReserved

(***************************************************************************)
(* C9. With 16 blocks and the reserved range [0,2): a fresh store has 14   *)
(* free blocks; four Allocate calls in a row return 2, 3, 4, 5; after a    *)
(* Release(3) that follows them there are 11 free blocks; and an Allocate  *)
(* that follows the Release returns 3 again.                               *)
(***************************************************************************)
FourAllocates ==
    Len(hist) >= 4 /\ \A k \in 1..4 : hist[k].op = "allocate"

ThenRelease3 ==
    FourAllocates /\ Len(hist) >= 5 /\ hist[5].op = "release" /\ hist[5].id = 3

ThenAllocate ==
    ThenRelease3 /\ Len(hist) >= 6 /\ hist[6].op = "allocate"

C9_Scenario ==
    hdr = [num_blocks |-> 16, start |-> 0, len |-> 2] =>
        /\ hist = <<>> => block_store_get_free_blocks(bs) = 14
        /\ FourAllocates => <<hist[1].ret, hist[2].ret, hist[3].ret, hist[4].ret>>
                                = <<2, 3, 4, 5>>
        /\ ThenRelease3 /\ Len(hist) = 5 => block_store_get_free_blocks(bs) = 11
        /\ ThenAllocate => hist[6].ret = 3

\* The whole scenario has run.
C9_Witness ==
    /\ hdr = [num_blocks |-> 16, start |-> 0, len |-> 2]
    /\ ThenAllocate /\ Len(hist) = 6
    /\ hist[6].ret = 3
    /\ block_store_get_free_blocks(bs) = 10

(***************************************************************************)
(* C2. On a valid store, after any sequence of Allocate, Request and       *)
(* Release calls, the number GetUsedBlocks returns plus the number         *)
(* GetFreeBlocks returns is GetTotalBlocks().                              *)
(***************************************************************************)
C2_UsedPlusFreeIsTotal ==
    Valid => block_store_get_used_blocks(bs) + block_store_get_free_blocks(bs)
                 = block_store_get_total_blocks

(***************************************************************************)
(* C6. No block is granted twice without a release in between: a Request   *)
(* of an id that was returned by Allocate or granted by Request, and not   *)
(* released since, fails, and Allocate returns no such id.                 *)
(***************************************************************************)
C6_NoDoubleGrant ==
    [][/\ call'.op = "request" /\ call'.id \in held => ~call'.ok
       /\ call'.op = "request" /\ call'.id < block_store_get_total_blocks
              /\ ~bitmap_test(bs.bitmap, call'.id) => call'.ok
       /\ call'.op = "allocate" => call'.ret \notin held]_vars

\* A Request granted an id and the same Request, made again at once, failed.
C6_Witness ==
    /\ prev.op = "request" /\ prev.ok
    /\ call.op = "request" /\ call.id = prev.id /\ ~call.ok
    /\ call.id \in held

(***************************************************************************)
(* C7. For every id below the number of blocks, a Request of the id made   *)
(* right after a Release of it succeeds.                                   *)
(***************************************************************************)
C7_ReleaseThenRequest ==
    /\ prev.op = "release" /\ call.op = "request"
    /\ call.id = prev.id /\ call.id < block_store_get_total_blocks
    => call.ok

\* The Request that followed the Release was granted, leaving other blocks
\* in use.
C7_Witness ==
    /\ prev.op = "release" /\ call.op = "request"
    /\ call.id = prev.id /\ call.id < block_store_get_total_blocks
    /\ call.ok
    /\ held # {call.id}

(***************************************************************************)
(* C8. A Release of an id whose bit is clear, or of an id that is not      *)
(* below the number of blocks, leaves the store as it was, and so the      *)
(* number of free blocks; a Release of an id whose bit is set clears that  *)
(* bit and no other.                                                       *)
(***************************************************************************)
C8_ReleaseEffect ==
    [][call'.op = "release" =>
          IF call'.id < block_store_get_total_blocks
             /\ bitmap_test(bs.bitmap, call'.id)
          THEN /\ SetBits(bs'.bitmap) = SetBits(bs.bitmap) \ {call'.id}
               /\ bs'.data = bs.data
          ELSE /\ bs' = bs
               /\ block_store_get_free_blocks(bs')
                      = block_store_get_free_blocks(bs)]_vars

\* A second Release of an id just released, while other blocks are in use.
C8_Witness ==
    /\ prev.op = "release" /\ call.op = "release"
    /\ call.id = prev.id /\ call.id < block_store_get_total_blocks
    /\ SetBits(bs.bitmap) # {}
    /\ ~bitmap_test(bs.bitmap, call.id)

(***************************************************************************)
(* C3. Allocate on a valid store returns the smallest block index outside  *)
(* the reserved range whose bit is clear and sets that bit and no other;   *)
(* when there is no such index it returns SIZE_MAX and leaves the store    *)
(* as it was.                                                              *)
(***************************************************************************)
C3_AllocateFirstFit ==
    [][call'.op = "allocate" /\ Valid =>
          LET free == {i \in NonReserved : ~bitmap_test(bs.bitmap, i)}
          IN  IF free = {}
              THEN call'.ret = SIZE_MAX /\ bs' = bs
              ELSE /\ call'.ret = Min(free)
                   /\ SetBits(bs'.bitmap) = SetBits(bs.bitmap) \cup {Min(free)}
                   /\ bs'.data = bs.data]_vars

\* Allocate returned a block although a reserved block below it and a
\* block above it were free.
C3_Witness ==
    /\ call.op = "allocate" /\ call.ok /\ Valid
    /\ \E i \in Reserved : i < call.ret /\ ~bitmap_test(bs.bitmap, i)
    /\ \E j \in NonReserved : j > call.ret /\ ~bitmap_test(bs.bitmap, j)

(***************************************************************************)
(* C4. Whatever calls came before (Allocate, Request, Release, Read,       *)
(* Write, Deserialize), Allocate never returns an index of the reserved    *)
(* range, also when bits of that range are clear.                          *)
(***************************************************************************)
C4_AllocateNeverReserved ==
    call.op = "allocate" => call.ret \notin Reserved

\* Allocate found no space, or returned a block above the reserved range,
\* while a bit of the reserved range was clear and its block held data (as
\* after a Deserialize or a Request, and a Release).
C4_Witness ==
    /\ call.op = "allocate" /\ Valid
    /\ \E i \in Reserved :
           /\ ~bitmap_test(bs.bitmap, i)
           /\ IsAllocated(bs.data, i * BLOCK_SIZE_BYTES, 0)
           /\ i < call.ret

(***************************************************************************)
(* C5. Request succeeds exactly when the store is valid, the id is below   *)
(* the number of blocks and the bit of the id is clear; then it sets that  *)
(* bit and no other; when it fails the store is as it was.                 *)
(***************************************************************************)
C5_RequestEffect ==
    [][call'.op = "request" =>
          LET succeeds == /\ Valid
                          /\ call'.id < block_store_get_total_blocks
                          /\ ~bitmap_test(bs.bitmap, call'.id)
          IN  /\ call'.ok = succeeds
              /\ IF succeeds
                 THEN /\ SetBits(bs'.bitmap) = SetBits(bs.bitmap) \cup {call'.id}
                      /\ bs'.data = bs.data
                 ELSE bs' = bs]_vars

\* A Request of a reserved block was granted on a store with data in it.
C5_Witness ==
    /\ call.op = "request" /\ call.ok /\ Valid
    /\ call.id \in Reserved
    /\ SetBits(bs.bitmap) # {call.id}
    /\ \E k \in DOMAIN bs.data : bs.data[k] # 0

(***************************************************************************)
(* C10. A Write of a block-sized buffer to an id below the number of       *)
(* blocks returns the block size, and a Read of that id then returns the   *)
(* block size and the bytes written, whether the block is allocated, free  *)
(* or reserved.                                                            *)
(***************************************************************************)
C10_WriteThenRead ==
    call.op = "write" /\ Valid /\ call.buffer # NULL
        /\ call.id < block_store_get_total_blocks
    => /\ call.ret = BLOCK_SIZE_BYTES
       /\ block_store_read(bs, call.id, ZeroBuffer)
              = [ret |-> BLOCK_SIZE_BYTES, buffer |-> call.buffer]

\* Bytes that are not all zero were written to a reserved block whose bit
\* is clear, while a block after it is in use and still holds zeros.
C10_Witness ==
    /\ call.op = "write" /\ Valid /\ call.ok
    /\ call.id \in Reserved /\ ~bitmap_test(bs.bitmap, call.id)
    /\ call.buffer # ZeroBuffer
    /\ \E j \in NonReserved :
           /\ j > call.id /\ bitmap_test(bs.bitmap, j)
           /\ block_store_read(bs, j, ZeroBuffer).buffer = ZeroBuffer

(***************************************************************************)
(* C11. From every store state, when a Serialize to a path succeeds and a  *)
(* Deserialize from that path then succeeds, a Read of each block id below *)
(* the number of blocks on the store returned gives the block size and the *)
(* bytes the block held in the first store when it was serialized.         *)
(***************************************************************************)
\* The bytes of block i of a raw buffer.
BlockOf(data, i) ==
    [k \in 0..(BLOCK_SIZE_BYTES - 1) |-> data[i * BLOCK_SIZE_BYTES + k]]

C11_RoundTrip ==
    call.op = "deserialize" /\ call.ok =>
        /\ hist # <<>>
        /\ \A i \in ValidIds :
               block_store_read(bs, i, ZeroBuffer)
                   = [ret |-> BLOCK_SIZE_BYTES, buffer |-> BlockOf(hist[1].data, i)]

\* A store was loaded back whose blocks are neither all zero nor all the
\* same, and whose bitmap is not the one the store had when it was saved.
C11_Witness ==
    /\ call.op = "deserialize" /\ call.ok /\ hist # <<>>
    /\ \E i \in ValidIds, j \in ValidIds :
           /\ BlockOf(bs.data, i) # BlockOf(bs.data, j)
           /\ BlockOf(hist[1].data, i) # ZeroBuffer
           /\ i < j
    /\ bs.bitmap # hist[1].bitmap

(***************************************************************************)
(* C12. In the store a successful Deserialize returns, for every block     *)
(* index below the number of blocks, those of the reserved range too, the  *)
(* bit of the index is set if and only if a byte of that block of the     *)
(* file is not zero.                                                       *)
(***************************************************************************)
C12_DeserializeBitmap ==
    call.op = "deserialize" /\ call.ok =>
        \A i \in ValidIds :
            bitmap_test(bs.bitmap, i)
                <=> \E k \in 1..BLOCK_SIZE_BYTES :
                        call.buffer.bytes[i * BLOCK_SIZE_BYTES + k] # 0

\* A file was loaded with data in a reserved block and in a block outside
\* the reserved range, and with another block all zero.
C12_Witness ==
    /\ call.op = "deserialize" /\ call.ok
    /\ \E i \in Reserved : bitmap_test(bs.bitmap, i)
    /\ \E i \in NonReserved : bitmap_test(bs.bitmap, i)
    /\ \E i \in ValidIds :
           /\ ~bitmap_test(bs.bitmap, i)
           /\ \A k \in 1..BLOCK_SIZE_BYTES :
                  call.buffer.bytes[i * BLOCK_SIZE_BYTES + k] = 0

(***************************************************************************)
(* C13. Persistence loses allocation state: a block whose bit was set (by  *)
(* Allocate or by Request) and whose bytes were all zero when the store    *)
(* was serialized is free in the store Deserialize returns, and a Request  *)
(* of its id on that store succeeds.                                       *)
(***************************************************************************)
C13_ZeroBlockLoadsFree ==
    call.op = "deserialize" /\ call.ok /\ hist # <<>> =>
        \A i \in ValidIds :
            bitmap_test(hist[1].bitmap, i) /\ BlockOf(hist[1].data, i) = ZeroBuffer
            => /\ ~bitmap_test(bs.bitmap, i)
               /\ block_store_request(bs, i).ret = TRUE

\* The saved store had an allocated block of zeros outside the reserved
\* range and one inside it, and an allocated block with data; the first
\* two came back free, the third in use.
C13_Witness ==
    /\ call.op = "deserialize" /\ call.ok /\ hist # <<>>
    /\ \E i \in NonReserved, j \in Reserved, d \in ValidIds :
           /\ bitmap_test(hist[1].bitmap, i) /\ BlockOf(hist[1].data, i) = ZeroBuffer
           /\ bitmap_test(hist[1].bitmap, j) /\ BlockOf(hist[1].data, j) = ZeroBuffer
           /\ bitmap_test(hist[1].bitmap, d) /\ BlockOf(hist[1].data, d) # ZeroBuffer
           /\ ~bitmap_test(bs.bitmap, i) /\ ~bitmap_test(bs.bitmap, j)
           /\ bitmap_test(bs.bitmap, d)

(***************************************************************************)
(* C14. With an id that is the number of blocks, or any id above it, Read  *)
(* and Write return 0, Request returns false and Release does nothing; in  *)
(* each case the store's raw buffer and bitmap are left as they were, and  *)
(* Read leaves the caller's buffer as it was.                              *)
(***************************************************************************)
C14_OutOfRangeRejected ==
    [][/\ call'.op \in {"read", "write", "request", "release"}
       /\ call'.id >= block_store_get_total_blocks
       => /\ bs' = bs
          /\ call'.op \in {"read", "write"} => call'.ret = 0 /\ ~call'.ok
          /\ call'.op = "request" => ~call'.ok
          /\ call'.op = "read"
                 => call'.buffer = NULL \/ call'.buffer = ZeroBuffer]_vars

\* A Write of bytes that are not all zero to the id one past the last
\* block was refused, on a store with the last block in use and every
\* byte still zero.
C14_Witness ==
    /\ call.op = "write" /\ call.id = block_store_get_total_blocks
    /\ call.buffer # NULL /\ call.buffer # ZeroBuffer
    /\ call.ret = 0 /\ Valid
    /\ bitmap_test(bs.bitmap, block_store_get_total_blocks - 1)
    /\ \A k \in DOMAIN bs.data : bs.data[k] = 0

(***************************************************************************)
(* C15. On a valid store GetUsedBlocks returns the number of bits set in   *)
(* the bitmap plus the length of the reserved range, so that a store just  *)
(* created reports that length as used and the rest of the blocks as       *)
(* free; without a store it returns SIZE_MAX.                              *)
(***************************************************************************)
C15_UsedBlocks ==
    /\ Valid => block_store_get_used_blocks(bs)
                    = Cardinality(SetBits(bs.bitmap)) + BITMAP_NUM_BLOCKS
    /\ call.op = "create" /\ call.ok =>
           /\ block_store_get_used_blocks(bs) = BITMAP_NUM_BLOCKS
           /\ block_store_get_free_blocks(bs)
                  = block_store_get_total_blocks - BITMAP_NUM_BLOCKS
    /\ ~Valid => block_store_get_used_blocks(bs) = SIZE_MAX

\* A store with a bit set inside the reserved range and one outside it,
\* and bits clear: used is two more than the length of the range.
C15_Witness ==
    /\ Valid
    /\ \E i \in Reserved, j \in NonReserved :
           SetBits(bs.bitmap) = {i, j}
    /\ block_store_get_used_blocks(bs) = BITMAP_NUM_BLOCKS + 2

(***************************************************************************)
(* C16. GetFreeBlocks returns SIZE_MAX exactly when GetUsedBlocks returns  *)
(* SIZE_MAX, that is when there is no store or no bitmap.                  *)
(***************************************************************************)
C16_FreeErrorIffUsedError ==
    block_store_get_free_blocks(bs) = SIZE_MAX
        <=> block_store_get_used_blocks(bs) = SIZE_MAX

(***************************************************************************)
(* C17. Allocation and raw I/O are decoupled: Allocate, Request and        *)
(* Release change no byte of the raw buffer; Write changes no byte outside *)
(* the block it addresses and never the bitmap; Read changes neither.      *)
(***************************************************************************)
C17_Decoupled ==
    [][/\ call'.op \in {"allocate", "request", "release"} =>
              IF Valid THEN bs' # NULL /\ bs'.data = bs.data ELSE bs' = bs
       /\ call'.op = "write" =>
              IF Valid
              THEN /\ bs' # NULL /\ bs'.bitmap = bs.bitmap
                   /\ \A k \in DOMAIN bs.data :
                          bs'.data[k] # bs.data[k] =>
                              /\ call'.ok
                              /\ k \div BLOCK_SIZE_BYTES = call'.id
              ELSE bs' = bs
       /\ call'.op = "read" => bs' = bs]_vars

\* Allocate handed out a block that already held data, as written before
\* the block was allocated, and the data is still there.
C17_Witness ==
    /\ call.op = "allocate" /\ call.ok /\ Valid
    /\ BlockOf(bs.data, call.ret) # ZeroBuffer
    /\ \E j \in ValidIds :
           ~bitmap_test(bs.bitmap, j) /\ BlockOf(bs.data, j) # ZeroBuffer

(***************************************************************************)
(* C18. The reserved range does not restrict Request: a Request of an id   *)
(* inside the range whose bit is clear succeeds and sets that bit, and no  *)
(* other, as it does for an id outside the range.                          *)
(***************************************************************************)
C18_RequestReserved ==
    [][/\ call'.op = "request" /\ Valid
       /\ call'.id \in Reserved /\ ~bitmap_test(bs.bitmap, call'.id)
       => /\ call'.ok
          /\ bitmap_test(bs'.bitmap, call'.id)
          /\ SetBits(bs'.bitmap) = SetBits(bs.bitmap) \cup {call'.id}
          /\ bs'.data = bs.data]_vars

\* A Request was granted a block of the reserved range when every block
\* outside the range was in use and the rest of the range was free.
C18_Witness ==
    /\ call.op = "request" /\ call.ok /\ Valid
    /\ call.id \in Reserved
    /\ SetBits(bs.bitmap) = NonReserved \cup {call.id}
    /\ Reserved # {call.id}

(***************************************************************************)
(* C19. In every state reached by Allocate, Request, Release and           *)
(* Deserialize calls, Requests of reserved ids and files with data in      *)
(* reserved blocks among them, GetUsedBlocks is at most the number of      *)
(* blocks and GetFreeBlocks at most the number of blocks outside the       *)
(* reserved range: the subtraction in GetFreeBlocks does not wrap.         *)
(***************************************************************************)
C19_UsedAndFreeBounded ==
    Valid =>
        /\ block_store_get_used_blocks(bs) <= block_store_get_total_blocks
        /\ block_store_get_free_blocks(bs)
               <= block_store_get_total_blocks - BITMAP_NUM_BLOCKS

(***************************************************************************)
(* C20. Serialize and Deserialize close the descriptor they opened on      *)
(* every path out of them, and every failing path of Create and of         *)
(* Deserialize (no memory for the store, no bitmap, no file to open, a     *)
(* short read) returns NULL with the store and the bitmap released: no     *)
(* descriptor stays open and no store is left half built.                  *)
(***************************************************************************)
C20_NothingLeftBehind ==
    /\ "fd" \notin res
    /\ call.op \in {"create", "deserialize"} /\ ~call.ok =>
           bs = NULL /\ res = {}
    /\ bs = NULL => res = {}
    /\ bs # NULL => bs.bitmap # NULL /\ res = {"bs", "bitmap"}

\* A Deserialize failed on a file that is there but too short, after the
\* store that a Serialize failed to save was destroyed.
C20_Witness ==
    /\ call.op = "deserialize" /\ ~call.ok
    /\ fs.exists /\ Len(fs.bytes) < BLOCK_STORE_NUM_BYTES
    /\ bs = NULL /\ res = {}

(***************************************************************************)
(* C21. Serialize returns the number of bytes of the raw buffer when the   *)
(* whole raw buffer was written to the file, and 0 on every failure: no    *)
(* store, no path, the file not opened, only part of the buffer written.   *)
(* In every case the store's raw buffer and bitmap are as they were.       *)
(***************************************************************************)
C21_SerializeReturn ==
    [][call'.op = "serialize" =>
          LET given == call'.buffer
              whole == /\ Valid /\ given.filename # NULL /\ given.open_ok
                       /\ given.written = BLOCK_STORE_NUM_BYTES
          IN  /\ bs' = bs
              /\ call'.ret = IF whole THEN BLOCK_STORE_NUM_BYTES ELSE 0
              /\ call'.ret # 0 =>
                     /\ fs'.exists
                     /\ fs'.bytes = [k \in 1..BLOCK_STORE_NUM_BYTES |->
                                         bs.data[k - 1]]]_vars

\* A Serialize of a store with data in it returned 0 after write wrote one
\* byte, leaving a file of one byte.
C21_Witness ==
    /\ call.op = "serialize" /\ call.ret = 0 /\ Valid
    /\ call.buffer.open_ok /\ call.buffer.written = 1
    /\ fs.exists /\ Len(fs.bytes) = 1
    /\ \E k \in DOMAIN bs.data : bs.data[k] # 0

(***************************************************************************)
(* C22. When, in the store that is serialized, the bit of every block is   *)
(* set exactly when the block holds a byte that is not zero, a Serialize   *)
(* followed by a Deserialize gives a store with the same bitmap, and so    *)
(* the same GetUsedBlocks and GetFreeBlocks and the same result of the     *)
(* next Allocate.                                                          *)
(***************************************************************************)
\* The bitmap of the store says of each block whether it holds data.
BitmapMatchesData(store) ==
    \A i \in ValidIds :
        bitmap_test(store.bitmap, i) <=> BlockOf(store.data, i) # ZeroBuffer

C22_BitmapRoundTrip ==
    call.op = "deserialize" /\ call.ok /\ hist # <<>>
        /\ BitmapMatchesData(hist[1])
    => /\ bs.bitmap = hist[1].bitmap
       /\ block_store_get_used_blocks(bs) = block_store_get_used_blocks(hist[1])
       /\ block_store_get_free_blocks(bs) = block_store_get_free_blocks(hist[1])
       /\ block_store_allocate(bs).ret = block_store_allocate(hist[1]).ret

\* The store saved had data in exactly its allocated blocks, one of them
\* reserved and one not, and a free block below the last allocated one for
\* the next Allocate to return.
C22_Witness ==
    /\ call.op = "deserialize" /\ call.ok /\ hist # <<>>
    /\ BitmapMatchesData(hist[1])
    /\ \E i \in Reserved : bitmap_test(bs.bitmap, i)
    /\ \E i \in NonReserved : bitmap_test(bs.bitmap, i)
    /\ block_store_allocate(bs).ret # SIZE_MAX
    /\ \E i \in NonReserved :
           bitmap_test(bs.bitmap, i) /\ block_store_allocate(bs).ret < i

(***************************************************************************)
(* C23. A bitmap created with bit_count bits has every bit clear, and      *)
(* after any bitmap_set and bitmap_reset calls on bits below bit_count,    *)
(* bitmap_total_set is the number of bits below bit_count that bitmap_test *)
(* finds set, and bitmap_test finds a bit set exactly when the last call   *)
(* on that bit was a bitmap_set: the two calls are idempotent and change   *)
(* no bit but their own.                                                   *)
(***************************************************************************)
C23_BitmapCounts ==
    LET bits == 0..(bs.bitmap.bit_count - 1)
    IN  /\ bitmap_total_set(bs.bitmap)
               = Cardinality({i \in bits : bitmap_test(bs.bitmap, i)})
        /\ \A i \in bits : bitmap_test(bs.bitmap, i) <=> i \in held
        /\ call = NoCall => \A i \in bits : ~bitmap_test(bs.bitmap, i)

\* In a bitmap of two bytes a bit of the second byte was set twice in a
\* row; it and one bit of the first byte are the bits set.
C23_Witness ==
    /\ bs.bitmap.byte_count = 2
    /\ prev.op = "bitmap_set" /\ call.op = "bitmap_set"
    /\ prev.id = call.id /\ call.id >= 8
    /\ bitmap_total_set(bs.bitmap) = 2
    /\ \E i \in 0..7 : bitmap_test(bs.bitmap, i)

====
